---- MODULE Spec2Model ----
(***************************************************************************)
(* Model of the iSHARE trusted-participant repository of dsba-pdp          *)
(* (package ishare) : construction from the environment, the scheduled     *)
(* refresh of the trusted fingerprints and the two-tier IsTrusted check.   *)
(*                                                                         *)
(* Go strings that the code inspects character by character (the seed      *)
(* list, fingerprints, x5c values, the update rate) are sequences of       *)
(* one-character strings; strings the code only compares or concatenates   *)
(* (URLs, ids, validity, status) are TLA+ strings.                         *)
(***************************************************************************)
EXTENDS Integers, Sequences, FiniteSets, TLC

\* a nil error value
Nil == "nil"

\* a Go pointer: nil, or a pointer to a value
NilPtr == <<>>
Ptr(x) == <<x>>
Deref(p) == p[1]

\* ------------------------------------------------------------------------
\* Bounds of the model
\* ------------------------------------------------------------------------
\* bytes of a digest (sha256.Sum256 yields 32; the model keeps DigestLen)
DigestLen == 1
\* longest trusted list the satellite answers with
MaxListLen == 2
\* most certificates registered for one party
MaxCerts == 2
\* most claims of one policy handed to Verify
MaxClaims == 2
\* most roles of one credential subject
MaxRoles == 2
\* most constructions of a repository in one process
MaxConstructions == 2

\* ------------------------------------------------------------------------
\* Small helpers on sequences
\* ------------------------------------------------------------------------
SetOf(s) == {s[i] : i \in 1..Len(s)}

SeqsUpTo(S, n) == UNION {[1..k -> S] : k \in 0..n}

\* ------------------------------------------------------------------------
\* buildCertificateFingerprint: sha256 of certificate.Raw, each byte "%02X"
\* ------------------------------------------------------------------------
HexDigits == <<"0","1","2","3","4","5","6","7","8","9","A","B","C","D","E","F">>

\* fmt.Fprintf(&buf, "%02X", f): two uppercase hex digits of one byte
Hex02X(f) == <<HexDigits[(f \div 16) + 1], HexDigits[(f % 16) + 1]>>

RECURSIVE Mix(_, _)
Mix(h, raw) ==
    IF raw = <<>> THEN h
    ELSE Mix((h * 33 + Head(raw)) % 256, Tail(raw))

\* crypto/sha256.Sum256 : a fixed-length digest that depends on every byte
\* of the input (a small mixing function stands for the library's SHA-256)
Sum256(raw) == [i \in 1..DigestLen |-> Mix((17 + 101 * i) % 256, raw)]

RECURSIVE HexOf(_)
HexOf(bytes) ==
    IF bytes = <<>> THEN <<>>
    ELSE Hex02X(Head(bytes)) \o HexOf(Tail(bytes))

buildCertificateFingerprint(certificate) == HexOf(Sum256(certificate.Raw))

\* ------------------------------------------------------------------------
\* contains(s, e): linear search, first hit wins
\* ------------------------------------------------------------------------
\* contains with the search starting one element late
containsFromSecond(s, e) == \E k \in 2..Len(s) : s[k] = e

RECURSIVE contains(_, _)
contains(s, e) ==
    IF s = <<>> THEN FALSE
    ELSE IF Head(s) = e THEN TRUE
    ELSE contains(Tail(s), e)

\* ------------------------------------------------------------------------
\* strings.Split(s, ",") on a sequence of characters
\* ------------------------------------------------------------------------
RECURSIVE SplitFrom(_, _, _)
SplitFrom(s, sep, cur) ==
    IF s = <<>> THEN <<cur>>
    ELSE IF Head(s) = sep THEN <<cur>> \o SplitFrom(Tail(s), sep, <<>>)
    ELSE SplitFrom(Tail(s), sep, Append(cur, Head(s)))

Split(s, sep) == SplitFrom(s, sep, <<>>)

\* ------------------------------------------------------------------------
\* base64.StdEncoding.DecodeString
\* ------------------------------------------------------------------------
B64Alphabet ==
    <<"A","B","C","D","E","F","G","H","I","J","K","L","M","N","O","P",
      "Q","R","S","T","U","V","W","X","Y","Z","a","b","c","d","e","f",
      "g","h","i","j","k","l","m","n","o","p","q","r","s","t","u","v",
      "w","x","y","z","0","1","2","3","4","5","6","7","8","9","+","/">>

IsB64(ch) == \E i \in 1..64 : B64Alphabet[i] = ch

B64Val(ch) == (CHOOSE i \in 1..64 : B64Alphabet[i] = ch) - 1

\* the decoder drops carriage returns and line feeds before decoding
StripNewlines(s) == SelectSeq(s, LAMBDA ch : ch \notin {"\n", "\r"})

\* one quantum of four characters, "=" padding only at its end
Quantum(q, last) ==
    IF IsB64(q[1]) /\ IsB64(q[2]) /\ IsB64(q[3]) /\ IsB64(q[4])
    THEN LET v == B64Val(q[1]) * 262144 + B64Val(q[2]) * 4096
                  + B64Val(q[3]) * 64 + B64Val(q[4])
         IN [ok |-> TRUE, bytes |-> <<v \div 65536, (v \div 256) % 256, v % 256>>]
    ELSE IF last /\ IsB64(q[1]) /\ IsB64(q[2]) /\ IsB64(q[3]) /\ q[4] = "="
    THEN LET v == B64Val(q[1]) * 262144 + B64Val(q[2]) * 4096 + B64Val(q[3]) * 64
         IN [ok |-> TRUE, bytes |-> <<v \div 65536, (v \div 256) % 256>>]
    ELSE IF last /\ IsB64(q[1]) /\ IsB64(q[2]) /\ q[3] = "=" /\ q[4] = "="
    THEN LET v == B64Val(q[1]) * 262144 + B64Val(q[2]) * 4096
         IN [ok |-> TRUE, bytes |-> <<v \div 65536>>]
    ELSE [ok |-> FALSE, bytes |-> <<>>]

RECURSIVE DecodeQuanta(_)
DecodeQuanta(s) ==
    IF s = <<>> THEN [ok |-> TRUE, bytes |-> <<>>]
    ELSE IF Len(s) < 4 THEN [ok |-> FALSE, bytes |-> <<>>]
    ELSE LET q    == Quantum(SubSeq(s, 1, 4), Len(s) = 4)
             rest == DecodeQuanta(SubSeq(s, 5, Len(s)))
         IN IF q.ok /\ rest.ok
            THEN [ok |-> TRUE, bytes |-> q.bytes \o rest.bytes]
            ELSE [ok |-> FALSE, bytes |-> <<>>]

\* [ok, bytes]: ok = FALSE is the decoder's CorruptInputError
DecodeString(s) == DecodeQuanta(StripNewlines(s))

\* ------------------------------------------------------------------------
\* x509.ParseCertificate: DER that does not open with the ASN.1 SEQUENCE
\* tag (0x30) followed by content is rejected; the parsed certificate
\* keeps the DER as its Raw
\* ------------------------------------------------------------------------
Asn1SequenceTag == 48

ParseCertificate(der) ==
    IF Len(der) >= 2 /\ der[1] = Asn1SequenceTag
    THEN [ok |-> TRUE, cert |-> [Raw |-> der]]
    ELSE [ok |-> FALSE, cert |-> [Raw |-> <<>>]]

\* ------------------------------------------------------------------------
\* strconv.Atoi on a sequence of characters: optional sign, then digits
\* ------------------------------------------------------------------------
Digits == <<"0","1","2","3","4","5","6","7","8","9">>

IsDigit(ch) == \E i \in 1..10 : Digits[i] = ch

DigitVal(ch) == (CHOOSE i \in 1..10 : Digits[i] = ch) - 1

RECURSIVE DigitsValue(_, _)
DigitsValue(s, acc) ==
    IF s = <<>> THEN acc
    ELSE DigitsValue(Tail(s), acc * 10 + DigitVal(Head(s)))

\* [ok, n]: ok = FALSE is Atoi's *NumError
Atoi(s) ==
    LET signed == s # <<>> /\ Head(s) \in {"+", "-"}
        body   == IF signed THEN Tail(s) ELSE s
    IN IF body = <<>> \/ \E i \in 1..Len(body) : ~IsDigit(body[i])
       THEN [ok |-> FALSE, n |-> 0]
       ELSE [ok |-> TRUE,
             n  |-> IF signed /\ Head(s) = "-" THEN 0 - DigitsValue(body, 0)
                    ELSE DigitsValue(body, 0)]

\* ------------------------------------------------------------------------
\* model.HttpError; its zero value is the code's "no error"
\* ------------------------------------------------------------------------
StatusOK == 200
StatusInternalServerError == 500
StatusBadGateway == 502

NoError == [Status |-> 0, Message |-> "", RootError |-> Nil]

\* ------------------------------------------------------------------------
\* Package-level defaults (the var block of the package)
\* ------------------------------------------------------------------------
DefaultSatelliteURL == "https://scheme.isharetest.net"
DefaultSatelliteId == "EU.EORI.NL000000000"
DefaultSatelliteTokenPath == "/connect/token"
DefaultSatelliteTrustedListPath == "/trusted_list"
satellitePartyPath == "/party/"
DefaultUpdateRateInS == 5

\* ------------------------------------------------------------------------
\* Inputs of the model: certificates, the environment, the satellite's
\* answers
\* ------------------------------------------------------------------------
CertA == [Raw |-> <<48, 1>>]
CertB == [Raw |-> <<48, 2>>]
CertC == [Raw |-> <<48, 3>>]

Certificates == {CertA, CertB, CertC}

FpA == buildCertificateFingerprint(CertA)
FpB == buildCertificateFingerprint(CertB)
FpC == buildCertificateFingerprint(CertC)

AllFingerprints == {buildCertificateFingerprint(c) : c \in Certificates}

\* x5c values a party may have registered: CertB, CertC, a value that is
\* not base64, and base64 of bytes that are no certificate
X5cB == <<"M", "A", "I", "=">>
X5cC == <<"M", "A", "M", "=">>
X5cNotBase64 == <<"M", "!", "I", "=">>
X5cNotDer == <<"A", "Q", "I", "=">>

X5cs == {X5cB, X5cC, X5cNotBase64, X5cNotDer}

\* strings of the model that hold an ASCII control character
ControlCharStrings == {"https://satellite\n.example", "EU.EORI.NL\t1"}

ClientIds == {"EU.EORI.NL999999999", "EU.EORI.NL\t1"}

Env(fingerprints, url) ==
    [fingerprints |-> fingerprints, url |-> url, id |-> "", tokenPath |-> "",
     trustedListPath |-> "", updateRate |-> <<>>]

\* the process environments the model starts from
Envs == {Env(<<>>, ""),
         Env(FpA, ""),
         Env(FpA \o <<",">> \o FpC, "https://satellite.example"),
         Env(FpA, "https://satellite\n.example")}

\* environments that leave every setting unset, set one of them, or set
\* them all; the refresh period is unset, a period, unparsable, zero or
\* negative
ConfigEnv(fingerprints, url, id, tokenPath, trustedListPath, updateRate) ==
    [fingerprints |-> fingerprints, url |-> url, id |-> id, tokenPath |-> tokenPath,
     trustedListPath |-> trustedListPath, updateRate |-> updateRate]

ConfigEnvs ==
    {ConfigEnv(<<>>, "", "", "", "", <<>>),
     ConfigEnv(FpA, "", "", "", "", <<>>),
     ConfigEnv(FpA, "https://satellite.example", "", "", "", <<>>),
     ConfigEnv(FpA, "", "EU.EORI.NL000000001", "", "", <<>>),
     ConfigEnv(FpA, "", "", "/token", "", <<>>),
     ConfigEnv(FpA, "", "", "", "/list", <<>>),
     ConfigEnv(FpA, "", "", "", "", <<"7">>),
     ConfigEnv(FpA, "", "", "", "", <<"x">>),
     ConfigEnv(FpA, "", "", "", "", <<"0">>),
     ConfigEnv(FpA, "", "", "", "", <<"-", "1">>),
     ConfigEnv(FpA, "https://satellite.example", "EU.EORI.NL000000001", "/token",
               "/list", <<"1", "2">>)}

\* entries of the satellite's trusted list
Participant(validity, status, fp) ==
    [Validity |-> validity, Status |-> status, CertificateFingerprint |-> fp]

Participants == {Participant("valid", "granted", FpB),
                 Participant("pending", "granted", FpC),
                 Participant("valid", "revoked", FpA)}

TrustedLists == SeqsUpTo(Participants, MaxListLen)

FewTrustedLists == {<<>>, <<Participant("valid", "granted", FpB)>>}

CertificateLists == SeqsUpTo([X5c : X5cs], MaxCerts)

FewCertificateLists == {<<>>, <<[X5c |-> X5cB]>>, <<[X5c |-> X5cC]>>}

\* parsedToken.TrustedList: nil or a pointer to a list
TrustedListPtrs(lists) == {NilPtr} \cup {Ptr(l) : l \in lists}

\* parsedToken.PartyInfo: nil, without a certificate list, or with one
PartyInfos(lists) ==
    {NilPtr, Ptr([Certificates |-> NilPtr])}
    \cup {Ptr([Certificates |-> Ptr(l)]) : l \in lists}

\* What the satellite and the injected capabilities do during one fetch:
\* the token capability's answer, the outcome of httpClient.Do, the status
\* and body of the response, and the parsing capability's answer.
TokenError == [Status |-> 401, Message |-> "no token", RootError |-> Nil]
ParseError == [Status |-> 400, Message |-> "invalid token", RootError |-> Nil]

World(tokenErr, do, statusCode, body, parseErr, value) ==
    [token      |-> [accessToken |-> "token", httpErr |-> tokenErr],
     do         |-> do,
     statusCode |-> statusCode,
     body       |-> body,
     parsed     |-> [value |-> value, httpErr |-> parseErr]]

\* no exchange has taken place
NoWorld == World(NoError, "none", 0, "", NoError, NilPtr)

\* every single failure, one of them under another token, and every
\* successful exchange with a value of `values`
Worlds(values) ==
    {World(TokenError, "resp", 200, "json", NoError, NilPtr),
     [World(NoError, "resp", 404, "json", NoError, NilPtr)
          EXCEPT !.token.accessToken = "another token"],
     World(NoError, "err", 200, "json", NoError, NilPtr),
     World(NoError, "nil", 200, "json", NoError, NilPtr),
     World(NoError, "resp", 404, "json", NoError, NilPtr),
     World(NoError, "resp", 200, "garbage", NoError, NilPtr),
     World(NoError, "resp", 200, "json", ParseError, NilPtr)}
    \cup {World(NoError, "resp", 200, "json", NoError, v) : v \in values}

\* the exchanges of the specifications: what a refresh meets and what a
\* party lookup meets
ListWorlds == Worlds(TrustedListPtrs(TrustedLists))

FewListWorlds == Worlds(TrustedListPtrs(FewTrustedLists))

PartyWorlds == Worlds(PartyInfos(CertificateLists))

FewPartyWorlds == Worlds(PartyInfos(FewCertificateLists))

\* a refused token or a list with one entry; an unknown party or a party
\* without certificates
ConfigListWorlds ==
    {World(TokenError, "resp", 200, "json", NoError, NilPtr),
     World(NoError, "resp", 200, "json", NoError,
           Ptr(<<Participant("valid", "granted", FpB)>>))}

ConfigPartyWorlds ==
    {World(NoError, "resp", 404, "json", NoError, NilPtr),
     World(NoError, "resp", 200, "json", NoError, Ptr([Certificates |-> Ptr(<<>>)]))}

\* the certificates and identifiers callers present
CaCertificates == {CertA, CertB}

ClientCertificates == {CertB, CertC}

OneCertificate == {CertB}

OneClientId == {"EU.EORI.NL999999999"}

\* ------------------------------------------------------------------------
\* The trust-anchor client
\* ------------------------------------------------------------------------
\* http.NewRequest fails when the URL does not parse; a URL holding an ASCII
\* control character does not, and a concatenation holds one exactly when
\* one of its parts does
NewRequestFails(host, path, id) ==
    \/ host \in ControlCharStrings
    \/ path \in ControlCharStrings
    \/ id \in ControlCharStrings

Request(url, accessToken) ==
    [method |-> "GET", url |-> url, authorization |-> "Bearer " \o accessToken]

\* the result of one fetch: the value and error returned, and what the
\* fetch did on the way (token capability calls, requests handed to the
\* HTTP client, parsing capability calls)
Fetched(value, httpErr, requests, parseCalls) ==
    [value |-> value, httpErr |-> httpErr, tokenCalls |-> 1,
     requests |-> requests, parseCalls |-> parseCalls]

\* the steps the two fetches share, from the token to the parsed value
Fetch(host, path, id, createMessage, doMessage, statusMessage, w) ==
    IF w.token.httpErr # NoError
    THEN Fetched(NilPtr, w.token.httpErr, <<>>, 0)
    ELSE IF NewRequestFails(host, path, id)
    THEN Fetched(NilPtr, [Status |-> StatusInternalServerError,
                       Message |-> createMessage, RootError |-> "url"], <<>>, 0)
    ELSE LET request == Request(host \o path \o id, w.token.accessToken)
         IN IF w.do \in {"err", "nil"}
            THEN Fetched(NilPtr, [Status |-> StatusBadGateway, Message |-> doMessage,
                               RootError |-> IF w.do = "err" THEN "transport" ELSE Nil],
                         <<request>>, 0)
            ELSE IF w.statusCode # StatusOK
            THEN Fetched(NilPtr, [Status |-> StatusBadGateway, Message |-> statusMessage,
                               RootError |-> Nil], <<request>>, 0)
            ELSE IF w.body # "json"
            THEN Fetched(NilPtr, [Status |-> StatusBadGateway,
                               Message |-> "Received an invalid body from the satellite",
                               RootError |-> "json"], <<request>>, 0)
            ELSE IF w.parsed.httpErr # NoError
            THEN Fetched(NilPtr, w.parsed.httpErr, <<request>>, 1)
            ELSE Fetched(w.parsed.value, w.parsed.httpErr, <<request>>, 1)

\* getTrustedList going on after a token error
getTrustedListWithoutTokenCheck(icr, trustedListPath, w) ==
    Fetch(icr.satelliteAr.Host, trustedListPath, "",
          "Was not able to create the request to the trusted list.",
          "Was not able to retrieve the trusted list.",
          "Was not able to retrieve the trusted list.",
          [w EXCEPT !.token.httpErr = NoError])

\* getTrustedList going on after a body that does not decode
getTrustedListAnyBody(icr, trustedListPath, w) ==
    Fetch(icr.satelliteAr.Host, trustedListPath, "",
          "Was not able to create the request to the trusted list.",
          "Was not able to retrieve the trusted list.",
          "Was not able to retrieve the trusted list.",
          [w EXCEPT !.body = "json"])

\* getTrustedList on the receiver icr; trustedListPath is the package
\* variable satelliteTrustedListPath as it is when the call runs
getTrustedList(icr, trustedListPath, w) ==
    Fetch(icr.satelliteAr.Host, trustedListPath, "",
          "Was not able to create the request to the trusted list.",
          "Was not able to retrieve the trusted list.",
          "Was not able to retrieve the trusted list.", w)

\* getTrustedParty without the check of the response's status
getTrustedPartyAnyStatus(icr, id, w) ==
    Fetch(icr.satelliteAr.Host, satellitePartyPath, id,
          "Was not able to create the request to the trusted list.",
          "Was not able to retrieve the trusted list.",
          "Was not able to retrieve the trusted party.",
          [w EXCEPT !.statusCode = StatusOK])

\* getTrustedParty asking once more after a Bad Gateway
getTrustedPartyRetrying(icr, id, w) ==
    LET first == Fetch(icr.satelliteAr.Host, satellitePartyPath, id,
                       "Was not able to create the request to the trusted list.",
                       "Was not able to retrieve the trusted list.",
                       "Was not able to retrieve the trusted party.", w)
    IN IF first.httpErr.Status = StatusBadGateway
       THEN [first EXCEPT !.tokenCalls = @ + first.tokenCalls,
                          !.requests = @ \o first.requests]
       ELSE first

getTrustedParty(icr, id, w) ==
    Fetch(icr.satelliteAr.Host, satellitePartyPath, id,
          "Was not able to create the request to the trusted list.",
          "Was not able to retrieve the trusted list.",
          "Was not able to retrieve the trusted party.", w)

\* ------------------------------------------------------------------------
\* IsTrusted, party tier: the loop over the party's certificates.
\* examined: entries whose decoding was attempted; compared: entries whose
\* fingerprint was compared with the client certificate's
\* ------------------------------------------------------------------------
\* the loop giving up at the first certificate that does not match
RECURSIVE rangeCertificatesFirstOnly(_, _, _)
rangeCertificatesFirstOnly(certs, i, clientCertificate) ==
    IF i > Len(certs)
    THEN [isTrusted |-> FALSE, examined |-> {}, compared |-> {}]
    ELSE LET decodedCert == DecodeString(certs[i].X5c)
             parsedCert  == ParseCertificate(decodedCert.bytes)
         IN IF ~decodedCert.ok \/ ~parsedCert.ok
            THEN [isTrusted |-> FALSE, examined |-> {i}, compared |-> {}]
            ELSE [isTrusted |-> buildCertificateFingerprint(parsedCert.cert)
                                = buildCertificateFingerprint(clientCertificate),
                  examined |-> {i}, compared |-> {i}]

\* the loop skipping a certificate that does not decode or parse
RECURSIVE rangeCertificatesSkipping(_, _, _)
rangeCertificatesSkipping(certs, i, clientCertificate) ==
    IF i > Len(certs)
    THEN [isTrusted |-> FALSE, examined |-> {}, compared |-> {}]
    ELSE LET decodedCert == DecodeString(certs[i].X5c)
             parsedCert  == ParseCertificate(decodedCert.bytes)
             rest        == rangeCertificatesSkipping(certs, i + 1, clientCertificate)
         IN IF ~decodedCert.ok \/ ~parsedCert.ok
            THEN [isTrusted |-> rest.isTrusted,
                  examined  |-> {i} \cup rest.examined,
                  compared  |-> rest.compared]
            ELSE IF buildCertificateFingerprint(parsedCert.cert)
                    = buildCertificateFingerprint(clientCertificate)
            THEN [isTrusted |-> TRUE, examined |-> {i}, compared |-> {i}]
            ELSE [isTrusted |-> rest.isTrusted,
                  examined  |-> {i} \cup rest.examined,
                  compared  |-> {i} \cup rest.compared]

RECURSIVE rangeCertificates(_, _, _)
rangeCertificates(certs, i, clientCertificate) ==
    IF i > Len(certs)
    THEN [isTrusted |-> FALSE, examined |-> {}, compared |-> {}]
    ELSE LET decodedCert == DecodeString(certs[i].X5c)
             parsedCert  == ParseCertificate(decodedCert.bytes)
         IN IF ~decodedCert.ok
            THEN [isTrusted |-> FALSE, examined |-> {i}, compared |-> {}]
            ELSE IF ~parsedCert.ok
            THEN [isTrusted |-> FALSE, examined |-> {i}, compared |-> {}]
            ELSE IF buildCertificateFingerprint(parsedCert.cert)
                    = buildCertificateFingerprint(clientCertificate)
            THEN [isTrusted |-> TRUE, examined |-> {i}, compared |-> {i}]
            ELSE LET rest == rangeCertificates(certs, i + 1, clientCertificate)
                 IN [isTrusted |-> rest.isTrusted,
                     examined  |-> {i} \cup rest.examined,
                     compared  |-> {i} \cup rest.compared]

\* what IsTrusted does once the party lookup has returned; panicked is the
\* nil dereference of `range *trustedParty.Certificates`, which ends the
\* call without an answer
checkParty(fetched, clientCertificate) ==
    IF fetched.httpErr # NoError
    THEN [isTrusted |-> FALSE, panicked |-> FALSE, examined |-> {}, compared |-> {}]
    ELSE IF fetched.value = NilPtr \/ Deref(fetched.value).Certificates = NilPtr
    THEN [isTrusted |-> FALSE, panicked |-> TRUE, examined |-> {}, compared |-> {}]
    ELSE LET ranged == rangeCertificates(Deref(Deref(fetched.value).Certificates),
                                         1, clientCertificate)
         IN [isTrusted |-> ranged.isTrusted, panicked |-> FALSE,
             examined |-> ranged.examined, compared |-> ranged.compared]

\* ------------------------------------------------------------------------
\* updateTrustedFingerprints, step by step.  The method has a value
\* receiver: icr is the call's own copy of the repository struct, store is
\* the struct the repository pointer refers to.  Each step yields what it
\* leaves in both.
\* ------------------------------------------------------------------------
\* the fetch step dropping the repository's fingerprints when the fetch fails
updateTrustedFingerprints_fetchClearing(store, icr, fetched) ==
    IF fetched.httpErr # NoError
    THEN [store |-> [store EXCEPT !.trustedFingerprints = <<>>], icr |-> icr,
          updatedFingerPrints |-> <<>>, pc |-> "returned"]
    ELSE IF fetched.value = NilPtr
    THEN [store |-> store, icr |-> icr, updatedFingerPrints |-> <<>>, pc |-> "panicked"]
    ELSE [store |-> store, icr |-> icr, updatedFingerPrints |-> <<>>, pc |-> "range"]

\* lines 140-145: the fetch, the early return on an error, the empty slice
updateTrustedFingerprints_fetch(store, icr, fetched) ==
    IF fetched.httpErr # NoError
    THEN [store |-> store, icr |-> icr, updatedFingerPrints |-> <<>>, pc |-> "returned"]
    ELSE IF fetched.value = NilPtr
    THEN [store |-> store, icr |-> icr, updatedFingerPrints |-> <<>>, pc |-> "panicked"]
    ELSE [store |-> store, icr |-> icr, updatedFingerPrints |-> <<>>, pc |-> "range"]

\* the loop building the new slice in the repository itself, entry by entry
updateTrustedFingerprints_rangeInPlace(store, icr, updatedFingerPrints, trustedParticipant) ==
    IF trustedParticipant.Validity # "valid" \/ trustedParticipant.Status # "granted"
    THEN [store |-> store, icr |-> icr, updatedFingerPrints |-> updatedFingerPrints]
    ELSE LET grown == Append(updatedFingerPrints,
                             trustedParticipant.CertificateFingerprint)
         IN [store |-> [store EXCEPT !.trustedFingerprints = grown],
             icr |-> [icr EXCEPT !.trustedFingerprints = grown],
             updatedFingerPrints |-> grown]

\* lines 146-157: one iteration of the loop over the fetched list
updateTrustedFingerprints_range(store, icr, updatedFingerPrints, trustedParticipant) ==
    IF trustedParticipant.Validity # "valid"
    THEN [store |-> store, icr |-> icr, updatedFingerPrints |-> updatedFingerPrints]
    ELSE IF trustedParticipant.Status # "granted"
    THEN [store |-> store, icr |-> icr, updatedFingerPrints |-> updatedFingerPrints]
    ELSE [store |-> store, icr |-> icr,
          updatedFingerPrints |->
              Append(updatedFingerPrints, trustedParticipant.CertificateFingerprint)]

\* line 158: icr.trustedFingerprints = updatedFingerPrints, on the copy
updateTrustedFingerprints_assign(store, icr, updatedFingerPrints) ==
    [store |-> store,
     icr   |-> [icr EXCEPT !.trustedFingerprints = updatedFingerPrints]]

\* ------------------------------------------------------------------------
\* CustomerCredentialVerifier.Verify
\* ------------------------------------------------------------------------
\* Claim{}: the zero value of the struct
NoClaim == [Name |-> "", AllowedValues |-> <<>>]

Claim(name, allowedValues) == [Name |-> name, AllowedValues |-> allowedValues]

Roles == {"admin", "buyer", "auditor"}

AllowLists == {<<>>, <<"admin">>, <<"admin", "buyer">>}

Claims == {Claim("other", <<"admin">>)} \cup {Claim("roles", a) : a \in AllowLists}

ClaimLists == SeqsUpTo(Claims, MaxClaims)

RoleLists == SeqsUpTo(Roles, MaxRoles)

Reason(text, role, claim) == [text |-> text, role |-> role, claim |-> claim]

\* Decision{allowed, reason}, with the number of subject roles the loop
\* looked up in the allow-list
Decision(allowed, reason, examined) ==
    [allowed |-> allowed, reason |-> reason, examined |-> examined]

NoDecision == Decision(FALSE, Reason("", "", NoClaim), 0)

\* contains(roleClaim.AllowedValues, role) of package main: the role
\* appears in the allow-list
containsRole(allowedValues, role) == role \in SetOf(allowedValues)

\* the loop of lines 12-17 without its break: the last claim named
\* "roles" stays in roleClaim
RECURSIVE rangeClaimsNoBreak(_, _, _)
rangeClaimsNoBreak(claims, i, roleClaim) ==
    IF i > Len(claims) THEN roleClaim
    ELSE IF claims[i].Name = "roles"
         THEN rangeClaimsNoBreak(claims, i + 1, claims[i])
         ELSE rangeClaimsNoBreak(claims, i + 1, roleClaim)

\* lines 12-17: the first claim named "roles" ends the loop
RECURSIVE rangeClaims(_, _, _)
rangeClaims(claims, i, roleClaim) ==
    IF i > Len(claims) THEN roleClaim
    ELSE IF claims[i].Name = "roles" THEN claims[i]
    ELSE rangeClaims(claims, i + 1, roleClaim)

\* the loop of lines 26-30 remembering a missing role and running on:
\* the last missing role is the one cited
rangeRolesToTheEnd(roles, i, roleClaim) ==
    LET missing == {k \in 1..Len(roles) :
                        ~containsRole(roleClaim.AllowedValues, roles[k])}
    IN IF missing = {} THEN Decision(TRUE, Reason("Role claims allowed.", "", NoClaim),
                                     Len(roles))
       ELSE LET last == CHOOSE k \in missing : \A m \in missing : m <= k
            IN Decision(FALSE,
                        Reason("Role %s is not coverd by the roles-claim capability %s.",
                               roles[last], roleClaim),
                        Len(roles))

\* lines 26-31: the first role the allow-list does not contain ends the
\* loop with a denial; a loop that runs out allows
RECURSIVE rangeRoles(_, _, _)
rangeRoles(roles, i, roleClaim) ==
    IF i > Len(roles)
    THEN Decision(TRUE, Reason("Role claims allowed.", "", NoClaim), i - 1)
    ELSE IF ~containsRole(roleClaim.AllowedValues, roles[i])
         THEN Decision(FALSE,
                       Reason("Role %s is not coverd by the roles-claim capability %s.",
                              roles[i], roleClaim),
                       i)
         ELSE rangeRoles(roles, i + 1, roleClaim)

\* Verify without lines 22-24: an empty allow-list goes to the loop
VerifyWithoutEmptyCheck(claims, roles) ==
    LET roleClaim == rangeClaims(claims, 1, NoClaim)
    IN IF roleClaim.Name = ""
       THEN Decision(TRUE, Reason("No restrictions for roles exist.", "", NoClaim), 0)
       ELSE rangeRoles(roles, 1, roleClaim)

\* lines 9-33, for the claims and the roles of the credential subject
Verify(claims, roles) ==
    LET roleClaim == rangeClaims(claims, 1, NoClaim)
    IN IF roleClaim.Name = ""
       THEN Decision(TRUE, Reason("No restrictions for roles exist.", "", NoClaim), 0)
       ELSE IF Len(roleClaim.AllowedValues) = 0
       THEN Decision(FALSE,
                     Reason("Claim %s does not allow any role assignment.", "",
                            roleClaim),
                     0)
       ELSE rangeRoles(roles, 1, roleClaim)

\* ------------------------------------------------------------------------
\* State
\* ------------------------------------------------------------------------
VARIABLES
    env,                      \* the process environment (os.Getenv)
    proc,                     \* "init", "running", "exited" (logger.Fatal), "crashed"
    satelliteURL,             \* package variables
    satelliteId,
    satelliteTokenPath,
    satelliteTrustedListPath,
    updateRateInS,
    repo,                     \* the struct behind the returned repository pointer
    task,                     \* the scheduled method value: the receiver it saved, its rate
    refresh,                  \* the running updateTrustedFingerprints call
    call,                     \* the running IsTrusted call of each caller
    lastGranted,              \* history: nil, or the valid and granted fingerprints of
                              \* the last refresh that ran to its end, in list order
    everTrusted,              \* history: fingerprints the seed or a finished refresh named
    verify,                   \* the running Verify call: its arguments, its decision
    built,                    \* history: each construction, its environment and result
    lastCall                  \* history: the IsTrusted call that returned last

vars == <<env, proc, satelliteURL, satelliteId, satelliteTokenPath,
          satelliteTrustedListPath, updateRateInS, repo, task, refresh, call,
          lastGranted, everTrusted, verify, built, lastCall>>

globals == <<satelliteURL, satelliteId, satelliteTokenPath,
             satelliteTrustedListPath, updateRateInS>>

Callers == {"c1"}

\* new(IShareTrustedParticipantRepository): the zero value of the struct
NoRepo ==
    [trustedFingerprints |-> <<>>,
     satelliteAr |-> [Id |-> "", Host |-> "", TokenPath |-> ""]]

NoTask == [receiver |-> NoRepo, rate |-> 0]

NoCertificate == [Raw |-> <<>>]

IdleRefresh ==
    [pc |-> "idle", icr |-> NoRepo, world |-> NoWorld, trustedList |-> NilPtr,
     i |-> 0, updatedFingerPrints |-> <<>>, before |-> <<>>,
     httpErr |-> NoError, tokenCalls |-> 0, requests |-> <<>>, parseCalls |-> 0]

IdleCall ==
    [pc |-> "idle", icr |-> NoRepo, caCertificate |-> NoCertificate,
     clientCertificate |-> NoCertificate, clientId |-> "",
     certificateFingerPrint |-> <<>>, world |-> NoWorld,
     isTrusted |-> FALSE, panicked |-> FALSE,
     lookups |-> 0, httpErr |-> NoError, tokenCalls |-> 0, requests |-> <<>>,
     parseCalls |-> 0,
     examined |-> {}, compared |-> {},
     sawWholeSet |-> TRUE, refreshAt |-> [pc |-> "idle", appended |-> 0],
     revoked |-> FALSE]

IdleVerify == [pc |-> "idle", claims |-> <<>>, roles |-> <<>>, decision |-> NoDecision]

\* the fingerprints of the entries of a fetched list that are valid and
\* granted, in list order
ValidAndGranted(trustedList) ==
    LET kept == SelectSeq(trustedList,
                          LAMBDA p : p.Validity = "valid" /\ p.Status = "granted")
    IN [k \in 1..Len(kept) |-> kept[k].CertificateFingerprint]

\* the seed the repository was constructed with
Seed == Split((IF built = <<>> THEN env ELSE built[1].env).fingerprints, ",")

Start(envs) ==
    /\ env \in envs
    /\ proc = "init"
    /\ satelliteURL = DefaultSatelliteURL
    /\ satelliteId = DefaultSatelliteId
    /\ satelliteTokenPath = DefaultSatelliteTokenPath
    /\ satelliteTrustedListPath = DefaultSatelliteTrustedListPath
    /\ updateRateInS = DefaultUpdateRateInS
    /\ repo = NoRepo
    /\ task = NoTask
    /\ refresh = IdleRefresh
    /\ call = [c \in Callers |-> IdleCall]
    /\ lastGranted = NilPtr
    /\ everTrusted = {}
    /\ verify = IdleVerify
    /\ built = <<>>
    /\ lastCall = IdleCall

Init == Start(Envs)

\* the process starts in an environment that sets any of the settings
InitConfig == Start(ConfigEnvs)

\* ------------------------------------------------------------------------
\* NewTrustedParticipantRepository
\* ------------------------------------------------------------------------
Override(current, fromEnv) == IF fromEnv # "" THEN fromEnv ELSE current

UpdateRate(current, fromEnv) ==
    LET updateRateInSEnv == Atoi(fromEnv)
    IN IF ~updateRateInSEnv.ok THEN current
       ELSE IF updateRateInSEnv.n > 0 THEN updateRateInSEnv.n
       ELSE current

\* the package variables, as one value
packageVars ==
    [satelliteURL |-> satelliteURL, satelliteId |-> satelliteId,
     satelliteTokenPath |-> satelliteTokenPath,
     satelliteTrustedListPath |-> satelliteTrustedListPath,
     updateRateInS |-> updateRateInS]

Constructed(fatal, pkg, store, scheduled) ==
    [fatal |-> fatal, packageVars |-> pkg, repo |-> store, task |-> scheduled]

\* the constructor without lines 52-56: an empty seed is split like any
\* other
constructWithoutSeedCheck(e, pkg) ==
    LET set   == [satelliteURL |-> Override(pkg.satelliteURL, e.url),
                  satelliteId |-> Override(pkg.satelliteId, e.id),
                  satelliteTokenPath |-> Override(pkg.satelliteTokenPath, e.tokenPath),
                  satelliteTrustedListPath |->
                      Override(pkg.satelliteTrustedListPath, e.trustedListPath),
                  updateRateInS |-> UpdateRate(pkg.updateRateInS, e.updateRate)]
        store == [trustedFingerprints |-> Split(e.fingerprints, ","),
                  satelliteAr |-> [Id |-> set.satelliteId, Host |-> set.satelliteURL,
                                   TokenPath |-> set.satelliteTokenPath]]
    IN Constructed(FALSE, set, store, [receiver |-> store, rate |-> set.updateRateInS])

\* lines 48-96 in the environment e, the package variables being pkg:
\* whether logger.Fatal was reached, the package variables afterwards, the
\* struct behind the returned pointer and what was scheduled
construct(e, pkg) ==
    IF e.fingerprints = <<>>
    THEN \* logger.Fatal ends the process; no repository is returned
         Constructed(TRUE, pkg, NoRepo, NoTask)
    ELSE LET set   == [satelliteURL |-> Override(pkg.satelliteURL, e.url),
                       satelliteId |-> Override(pkg.satelliteId, e.id),
                       satelliteTokenPath |->
                           Override(pkg.satelliteTokenPath, e.tokenPath),
                       satelliteTrustedListPath |->
                           Override(pkg.satelliteTrustedListPath, e.trustedListPath),
                       updateRateInS |-> UpdateRate(pkg.updateRateInS, e.updateRate)]
             store == [trustedFingerprints |-> Split(e.fingerprints, ","),
                       satelliteAr |-> [Id |-> set.satelliteId,
                                        Host |-> set.satelliteURL,
                                        TokenPath |-> set.satelliteTokenPath]]
         \* scheduleTrustedListUpdate: the method value saves a copy of
         \* its receiver, itself a copy of the struct
         IN Constructed(FALSE, set, store,
                        [receiver |-> store, rate |-> set.updateRateInS])

\* the first construction of the process
NewTrustedParticipantRepository ==
    /\ proc = "init"
    /\ LET made == construct(env, packageVars)
       IN /\ proc' = IF made.fatal THEN "exited" ELSE "running"
          /\ satelliteURL' = made.packageVars.satelliteURL
          /\ satelliteId' = made.packageVars.satelliteId
          /\ satelliteTokenPath' = made.packageVars.satelliteTokenPath
          /\ satelliteTrustedListPath' = made.packageVars.satelliteTrustedListPath
          /\ updateRateInS' = made.packageVars.updateRateInS
          /\ repo' = made.repo
          /\ task' = made.task
          /\ everTrusted' = SetOf(made.repo.trustedFingerprints)
          /\ built' = Append(built, [env |-> env, made |-> made])
    /\ UNCHANGED <<verify, lastCall, env, refresh, call, lastGranted>>

\* a later construction in the same process, in an environment that may
\* have changed since (os.Setenv): the package variables are written
\* again; the repository built first keeps its struct and its schedule
NewTrustedParticipantRepository_again(envs) ==
    /\ proc = "running"
    /\ Len(built) < MaxConstructions
    /\ \E e \in envs :
        LET made == construct(e, packageVars)
        IN /\ env' = e
           /\ proc' = IF made.fatal THEN "exited" ELSE "running"
           /\ satelliteURL' = made.packageVars.satelliteURL
           /\ satelliteId' = made.packageVars.satelliteId
           /\ satelliteTokenPath' = made.packageVars.satelliteTokenPath
           /\ satelliteTrustedListPath' = made.packageVars.satelliteTrustedListPath
           /\ updateRateInS' = made.packageVars.updateRateInS
           /\ built' = Append(built, [env |-> e, made |-> made])
    /\ UNCHANGED <<verify, lastCall, repo, task, refresh, call, lastGranted,
                   everTrusted>>

\* ------------------------------------------------------------------------
\* The scheduled refresh: updateTrustedFingerprints
\* ------------------------------------------------------------------------
\* the process after a call of the scheduled task that panicked, and after
\* one that returned
AfterPanic == {"running", "crashed"}

AfterReturn == {"running"}

\* a tick of the scheduler: the call starts on a copy of the saved
\* receiver, fetches the list and returns early, panics or enters the loop
updateTrustedFingerprints_call(worlds) ==
    /\ proc = "running"
    /\ task # NoTask
    /\ refresh.pc = "idle"
    /\ \E w \in worlds :
        LET fetched == getTrustedList(task.receiver, satelliteTrustedListPath, w)
            step    == updateTrustedFingerprints_fetch(repo, task.receiver, fetched)
        IN /\ refresh' = [pc |-> step.pc, icr |-> step.icr, world |-> w,
                          trustedList |-> fetched.value, i |-> 1,
                          updatedFingerPrints |-> step.updatedFingerPrints,
                          before |-> repo.trustedFingerprints,
                          httpErr |-> fetched.httpErr,
                          tokenCalls |-> fetched.tokenCalls,
                          requests |-> fetched.requests,
                          parseCalls |-> fetched.parseCalls]
           /\ repo' = step.store
           \* a panic nothing in this package recovers: the scheduler's
           \* goroutine, and with it the process, may end
           /\ proc' \in IF step.pc = "panicked" THEN AfterPanic ELSE AfterReturn
    /\ UNCHANGED <<verify, built, lastCall, env, globals, task, call, lastGranted, everTrusted>>

updateTrustedFingerprints_loop ==
    /\ proc = "running"
    /\ refresh.pc = "range"
    /\ refresh.i <= Len(Deref(refresh.trustedList))
    /\ LET step == updateTrustedFingerprints_range(repo, refresh.icr,
                       refresh.updatedFingerPrints,
                       Deref(refresh.trustedList)[refresh.i])
       IN /\ refresh' = [refresh EXCEPT !.icr = step.icr, !.i = @ + 1,
                             !.updatedFingerPrints = step.updatedFingerPrints]
          /\ repo' = step.store
    /\ UNCHANGED <<verify, built, lastCall, env, proc, globals, task, call, lastGranted, everTrusted>>

updateTrustedFingerprints_end ==
    /\ proc = "running"
    /\ refresh.pc = "range"
    /\ refresh.i > Len(Deref(refresh.trustedList))
    /\ LET step == updateTrustedFingerprints_assign(repo, refresh.icr,
                       refresh.updatedFingerPrints)
       IN /\ refresh' = [refresh EXCEPT !.icr = step.icr, !.pc = "returned"]
          /\ repo' = step.store
    /\ lastGranted' = Ptr(ValidAndGranted(Deref(refresh.trustedList)))
    /\ everTrusted' = everTrusted \cup SetOf(repo'.trustedFingerprints)
    /\ UNCHANGED <<verify, built, lastCall, env, proc, globals, task, call>>

\* the call is over; the scheduler waits for the next tick
updateTrustedFingerprints_return ==
    /\ proc = "running"
    /\ refresh.pc \in {"returned", "panicked"}
    /\ refresh' = IdleRefresh
    /\ UNCHANGED <<verify, built, lastCall, env, proc, globals, repo, task, call, lastGranted, everTrusted>>

\* ------------------------------------------------------------------------
\* IsTrusted
\* ------------------------------------------------------------------------
\* the set the repository holds is the seed or what the last finished
\* refresh granted
WholeSet(trustedFingerprints) ==
    \/ trustedFingerprints = Seed
    \/ lastGranted # NilPtr /\ trustedFingerprints = Deref(lastGranted)

\* IsTrusted keeping the CA fingerprint of a call the party lookup
\* confirmed
IsTrusted_storeCaching(store, isTrusted, certificateFingerPrint) ==
    IF isTrusted /\ ~contains(store.trustedFingerprints, certificateFingerPrint)
    THEN [store EXCEPT !.trustedFingerprints = Append(@, certificateFingerPrint)]
    ELSE store

\* lines 103-135 assign to no field and to no package variable: the struct
\* behind the repository after a step of IsTrusted
IsTrusted_store(store, isTrusted, certificateFingerPrint) == store

\* lines 103-110: the call copies the struct (value receiver) and checks
\* the CA certificate's fingerprint against the trusted fingerprints
IsTrusted_ca(c, caCertificates, clientCertificates, clientIds) ==
    /\ proc = "running"
    /\ repo # NoRepo
    /\ call[c].pc = "idle"
    /\ \E caCertificate \in caCertificates, clientCertificate \in clientCertificates,
          clientId \in clientIds :
        LET icr == repo
            certificateFingerPrint == buildCertificateFingerprint(caCertificate)
            listed == contains(icr.trustedFingerprints, certificateFingerPrint)
        IN /\ call' = [call EXCEPT ![c] =
               [IdleCall EXCEPT
                   !.pc = IF listed THEN "done" ELSE "party",
                   !.icr = icr,
                   !.caCertificate = caCertificate,
                   !.clientCertificate = clientCertificate,
                   !.clientId = clientId,
                   !.certificateFingerPrint = certificateFingerPrint,
                   !.isTrusted = listed,
                   !.sawWholeSet = WholeSet(icr.trustedFingerprints),
                   !.refreshAt = [pc |-> refresh.pc,
                                  appended |-> Len(refresh.updatedFingerPrints)],
                   !.revoked = /\ certificateFingerPrint \in everTrusted
                               /\ lastGranted # NilPtr
                               /\ certificateFingerPrint
                                      \notin SetOf(Deref(lastGranted))]]
           /\ repo' = IsTrusted_store(repo, listed, certificateFingerPrint)
    /\ UNCHANGED <<verify, built, lastCall, env, proc, globals, task, refresh,
                   lastGranted, everTrusted>>

\* lines 112-134: the party lookup and the loop over its certificates
IsTrusted_party(c, worlds) ==
    /\ proc = "running"
    /\ call[c].pc = "party"
    /\ \E w \in worlds :
        LET fetched == getTrustedParty(call[c].icr, call[c].clientId, w)
            checked == checkParty(fetched, call[c].clientCertificate)
        IN /\ call' = [call EXCEPT ![c] =
               [@ EXCEPT !.pc = "done",
                         !.world = w,
                         !.isTrusted = checked.isTrusted,
                         !.panicked = checked.panicked,
                         !.lookups = @ + 1,
                         !.httpErr = fetched.httpErr,
                         !.tokenCalls = @ + fetched.tokenCalls,
                         !.requests = @ \o fetched.requests,
                         !.parseCalls = @ + fetched.parseCalls,
                         !.examined = checked.examined,
                         !.compared = checked.compared]]
           /\ repo' = IsTrusted_store(repo, checked.isTrusted,
                                      call[c].certificateFingerPrint)
    /\ UNCHANGED <<verify, built, lastCall, env, proc, globals, task, refresh,
                   lastGranted, everTrusted>>

\* the caller has its answer
IsTrusted_return(c) ==
    /\ proc = "running"
    /\ call[c].pc = "done"
    /\ call' = [call EXCEPT ![c] = IdleCall]
    /\ UNCHANGED <<verify, built, lastCall, env, proc, globals, repo, task, refresh, lastGranted, everTrusted>>

\* the caller has its answer; the history keeps what the call was given,
\* what it met and what it answered
IsTrusted_returnNoted(c) ==
    /\ proc = "running"
    /\ call[c].pc = "done"
    /\ lastCall' = [IdleCall EXCEPT !.pc = "done",
                                    !.icr = call[c].icr,
                                    !.caCertificate = call[c].caCertificate,
                                    !.clientCertificate = call[c].clientCertificate,
                                    !.clientId = call[c].clientId,
                                    !.world = call[c].world,
                                    !.lookups = call[c].lookups,
                                    !.isTrusted = call[c].isTrusted,
                                    !.panicked = call[c].panicked]
    /\ call' = [call EXCEPT ![c] = IdleCall]
    /\ UNCHANGED <<verify, built, env, proc, globals, repo, task, refresh, lastGranted,
                   everTrusted>>

\* ------------------------------------------------------------------------
\* Verify
\* ------------------------------------------------------------------------
\* the evaluator is called with a policy's claims and a credential subject
Verify_call(claimLists, roleLists) ==
    /\ verify.pc = "idle"
    /\ \E claims \in claimLists, roles \in roleLists :
        verify' = [pc |-> "done", claims |-> claims, roles |-> roles,
                   decision |-> Verify(claims, roles)]
    /\ UNCHANGED <<env, proc, globals, repo, task, refresh, call, lastGranted,
                   everTrusted, built, lastCall>>

\* the caller has its decision
Verify_return ==
    /\ verify.pc = "done"
    /\ verify' = IdleVerify
    /\ UNCHANGED <<env, proc, globals, repo, task, refresh, call, lastGranted,
                   everTrusted, built, lastCall>>

\* ------------------------------------------------------------------------
\* Specifications
\* ------------------------------------------------------------------------
\* the refresh against every trusted list up to MaxListLen, with callers
\* whose party lookups see a few answers
Next ==
    \/ NewTrustedParticipantRepository
    \/ updateTrustedFingerprints_call(ListWorlds)
    \/ updateTrustedFingerprints_loop
    \/ updateTrustedFingerprints_end
    \/ updateTrustedFingerprints_return
    \/ \E c \in Callers :
        \/ IsTrusted_ca(c, Certificates, OneCertificate, OneClientId)
        \/ IsTrusted_party(c, FewPartyWorlds)
        \/ IsTrusted_return(c)

Spec == Init /\ [][Next]_vars

\* callers whose party lookups see every certificate list up to MaxCerts,
\* with a refresh that fetches a few lists
NextParty ==
    \/ NewTrustedParticipantRepository
    \/ updateTrustedFingerprints_call(FewListWorlds)
    \/ updateTrustedFingerprints_loop
    \/ updateTrustedFingerprints_end
    \/ updateTrustedFingerprints_return
    \/ \E c \in Callers :
        \/ IsTrusted_ca(c, CaCertificates, ClientCertificates, ClientIds)
        \/ IsTrusted_party(c, PartyWorlds)
        \/ IsTrusted_return(c)

SpecParty == Init /\ [][NextParty]_vars

\* the role-claim evaluator against every claim list up to MaxClaims and
\* every role list up to MaxRoles
NextVerify ==
    \/ Verify_call(ClaimLists, RoleLists)
    \/ Verify_return

SpecVerify == Init /\ [][NextVerify]_vars

\* repositories constructed one after another in one process, up to
\* MaxConstructions, in environments that set any of the settings; the
\* repository built first refreshes and answers callers
NextConfig ==
    \/ NewTrustedParticipantRepository
    \/ NewTrustedParticipantRepository_again(ConfigEnvs)
    \/ updateTrustedFingerprints_call(ConfigListWorlds)
    \/ updateTrustedFingerprints_loop
    \/ updateTrustedFingerprints_end
    \/ updateTrustedFingerprints_return
    \/ \E c \in Callers :
        \/ IsTrusted_ca(c, OneCertificate, OneCertificate, OneClientId)
        \/ IsTrusted_party(c, ConfigPartyWorlds)
        \/ IsTrusted_return(c)

SpecConfig == InitConfig /\ [][NextConfig]_vars

\* callers that ask again and again, the history keeping the call that
\* returned last, beside a refresh
NextRepeat ==
    \/ NewTrustedParticipantRepository
    \/ updateTrustedFingerprints_call(ConfigListWorlds)
    \/ updateTrustedFingerprints_loop
    \/ updateTrustedFingerprints_end
    \/ updateTrustedFingerprints_return
    \/ \E c \in Callers :
        \/ IsTrusted_ca(c, CaCertificates, ClientCertificates, OneClientId)
        \/ IsTrusted_party(c, FewPartyWorlds)
        \/ IsTrusted_returnNoted(c)

SpecRepeat == Init /\ [][NextRepeat]_vars

\* ------------------------------------------------------------------------
\* Vocabulary of the properties
\* ------------------------------------------------------------------------
\* the exchange w, for a request to host + path + id, fails at some step
ExchangeFails(host, path, id, w) ==
    \/ w.token.httpErr # NoError
    \/ host \in ControlCharStrings \/ path \in ControlCharStrings
    \/ id \in ControlCharStrings
    \/ w.do # "resp"
    \/ w.statusCode # 200
    \/ w.body # "json"
    \/ w.parsed.httpErr # NoError

\* the call k made its party lookup and the lookup failed
LookupFailed(k) ==
    /\ k.lookups > 0
    /\ ExchangeFails(k.icr.satelliteAr.Host, "/party/", k.clientId, k.world)

\* the call k made its party lookup and it yielded a certificate list
LookupSucceeded(k) ==
    /\ k.lookups > 0
    /\ ~ExchangeFails(k.icr.satelliteAr.Host, "/party/", k.clientId, k.world)
    /\ k.world.parsed.value # NilPtr
    /\ Deref(k.world.parsed.value).Certificates # NilPtr

Registered(k) == Deref(Deref(k.world.parsed.value).Certificates)

\* the x5c value decodes and parses
WellFormed(x5c) ==
    DecodeString(x5c).ok /\ ParseCertificate(DecodeString(x5c).bytes).ok

\* the x5c value is a certificate with the fingerprint of `certificate`
SameCertificate(x5c, certificate) ==
    /\ WellFormed(x5c)
    /\ HexOf(Sum256(DecodeString(x5c).bytes)) = HexOf(Sum256(certificate.Raw))

\* the CA certificate of call k is listed in the set the call reads
CaListed(k) ==
    buildCertificateFingerprint(k.caCertificate) \in SetOf(k.icr.trustedFingerprints)

\* ------------------------------------------------------------------------
\* Properties
\* ------------------------------------------------------------------------
\* C1: once a refresh has fetched a list without an error and run to its
\* end, the fingerprints the repository holds (the ones IsTrusted reads) are
\* exactly those of the fetched entries that are valid and granted.
C1_RefreshReplacesTrustedSet ==
    lastGranted # NilPtr =>
        SetOf(repo.trustedFingerprints) = SetOf(Deref(lastGranted))

\* C2: a CA fingerprint that was trusted and that the last finished refresh
\* no longer grants is refused by every IsTrusted call started after that
\* refresh, unless the party lookup finds a matching certificate.
C2_RevocationPropagates ==
    \A c \in Callers :
        LET k == call[c]
            matched == /\ LookupSucceeded(k)
                       /\ \E n \in 1..Len(Registered(k)) :
                              SameCertificate(Registered(k)[n].X5c, k.clientCertificate)
        IN (k.pc = "done" /\ k.revoked /\ ~matched) => ~k.isTrusted

\* C3: a call whose CA certificate's fingerprint is in the trusted set it
\* reads answers true, whatever the client certificate and client id, having
\* asked for no token and issued no request.
C3_ListedCaTrustedWithoutNetwork ==
    \A c \in Callers :
        LET k == call[c]
        IN (k.pc # "idle" /\ CaListed(k)) =>
               /\ k.pc = "done"
               /\ k.isTrusted /\ ~k.panicked
               /\ k.lookups = 0 /\ k.tokenCalls = 0 /\ k.requests = <<>>

C3_Witness ==
    \E c \in Callers :
        /\ call[c].pc = "done" /\ CaListed(call[c]) /\ call[c].isTrusted
        /\ call[c].clientCertificate = CertC
        /\ call[c].clientId \in ControlCharStrings

\* C4: a call whose CA certificate is not listed and whose party lookup
\* fails at any step (token, request creation, transport or nil response,
\* status, envelope, party token) answers false.
C4_FailedLookupDenies ==
    \A c \in Callers :
        LET k == call[c]
        IN (k.pc = "done" /\ ~CaListed(k) /\ LookupFailed(k)) =>
               ~k.isTrusted /\ ~k.panicked

C4_Witness ==
    \E c \in Callers :
        /\ call[c].pc = "done" /\ ~CaListed(call[c]) /\ LookupFailed(call[c])
        /\ call[c].world.statusCode = 404
        /\ ~call[c].isTrusted

C6_MalformedCertificateDenies ==
    \A c \in Callers :
        LET k == call[c]
        IN (k.pc = "done" /\ ~CaListed(k) /\ LookupSucceeded(k)) =>
               \A m \in 1..Len(Registered(k)) :
                   ( /\ ~WellFormed(Registered(k)[m].X5c)
                     /\ \A n \in 1..(m - 1) :
                            /\ WellFormed(Registered(k)[n].X5c)
                            /\ ~SameCertificate(Registered(k)[n].X5c,
                                                k.clientCertificate) )
                   => /\ ~k.isTrusted /\ ~k.panicked
                      /\ k.examined = 1..m
                      /\ k.compared = 1..(m - 1)

C6_Witness ==
    \E c \in Callers :
        /\ call[c].pc = "done" /\ ~CaListed(call[c]) /\ LookupSucceeded(call[c])
        /\ Registered(call[c]) = <<[X5c |-> X5cNotBase64], [X5c |-> X5cB]>>
        /\ call[c].clientCertificate = CertB
        /\ ~call[c].isTrusted

\* C7: when the fetch of a refresh fails at any step, the refresh returns
\* with the repository's trusted fingerprints as they were when it started,
\* so membership of every CA fingerprint is as before.
C7_FailedRefreshKeepsSet ==
    ( /\ refresh.pc = "returned"
      /\ ExchangeFails(refresh.icr.satelliteAr.Host, satelliteTrustedListPath, "",
                       refresh.world) )
    => /\ repo.trustedFingerprints = refresh.before
       /\ \A certificate \in Certificates :
              contains(repo.trustedFingerprints,
                       buildCertificateFingerprint(certificate))
              = contains(refresh.before, buildCertificateFingerprint(certificate))

C7_Witness ==
    /\ refresh.pc = "returned"
    /\ refresh.world.parsed.httpErr # NoError
    /\ repo.trustedFingerprints = <<FpA, FpC>>

\* C8: whatever the token capability, the HTTP exchange, the decoding and
\* the list-parsing capability produce, updateTrustedFingerprints returns
\* normally: it never ends in a panic.
C8_RefreshNeverPanics == refresh.pc # "panicked"

\* C9: the set an IsTrusted call checks membership in is one whole
\* published set: the seed, or the complete valid-and-granted list of a
\* finished refresh, never a set under construction.
C9_ReadersSeeWholeSet ==
    /\ proc = "running" => WholeSet(repo.trustedFingerprints)
    /\ \A c \in Callers : call[c].pc # "idle" => call[c].sawWholeSet

C9_Witness ==
    \E c \in Callers :
        /\ call[c].pc # "idle"
        /\ call[c].refreshAt.pc = "range"
        /\ call[c].refreshAt.appended > 0
        /\ call[c].sawWholeSet

\* C10: a call whose CA certificate is not listed makes exactly one party
\* lookup: one token acquisition and at most one GET, to host + party path
\* + client id, whatever the outcome.
C10_ExactlyOneLookup ==
    \A c \in Callers :
        LET k == call[c]
        IN /\ (k.pc # "idle" /\ ~CaListed(k)) => k.pc \in {"party", "done"}
           /\ (k.pc = "done" /\ ~CaListed(k)) =>
                  /\ k.lookups = 1
                  /\ k.tokenCalls = 1
                  /\ Len(k.requests) <= 1
                  /\ \A n \in 1..Len(k.requests) :
                         /\ k.requests[n].method = "GET"
                         /\ k.requests[n].url =
                                k.icr.satelliteAr.Host \o "/party/" \o k.clientId

C10_Witness ==
    \E c \in Callers :
        /\ call[c].pc = "done" /\ ~CaListed(call[c])
        /\ call[c].world.do = "err"
        /\ Len(call[c].requests) = 1
        /\ ~call[c].isTrusted

\* ------------------------------------------------------------------------
\* Vocabulary of the Verify properties
\* ------------------------------------------------------------------------
\* the positions of the claims named "roles"
NamedRoles(claims) == {k \in 1..Len(claims) : claims[k].Name = "roles"}

\* the first claim named "roles"; NamedRoles(claims) is not empty
FirstNamedRoles(claims) ==
    claims[CHOOSE k \in NamedRoles(claims) : \A m \in NamedRoles(claims) : k <= m]

\* the positions of the roles an allow-list does not hold
Uncovered(roles, allowedValues) ==
    {k \in 1..Len(roles) : roles[k] \notin SetOf(allowedValues)}

\* C11: the decision of Verify is allowed when no claim is named "roles",
\* denied when the "roles" claim has an empty allow-list whatever the
\* subject's roles, and otherwise allowed exactly when every role of the
\* subject is in the allow-list.
C11_VerifyMatchesReference ==
    verify.pc = "done" =>
        verify.decision.allowed =
            IF NamedRoles(verify.claims) = {} THEN TRUE
            ELSE LET allowed == SetOf(FirstNamedRoles(verify.claims).AllowedValues)
                 IN IF allowed = {} THEN FALSE
                    ELSE SetOf(verify.roles) \subseteq allowed

\* a subject without roles is denied by a "roles" claim that allows nothing
C11_Witness ==
    /\ verify.pc = "done"
    /\ NamedRoles(verify.claims) # {}
    /\ FirstNamedRoles(verify.claims).AllowedValues = <<>>
    /\ verify.roles = <<>>
    /\ ~verify.decision.allowed

\* C17: when the first "roles" claim allows something and the subject has
\* a role it does not allow, Verify denies citing the first such role in
\* subject order, and has looked at no role after it.
C17_FirstUncoveredRoleCited ==
    (/\ verify.pc = "done"
     /\ NamedRoles(verify.claims) # {}
     /\ FirstNamedRoles(verify.claims).AllowedValues # <<>>
     /\ Uncovered(verify.roles, FirstNamedRoles(verify.claims).AllowedValues) # {})
    => LET missing == Uncovered(verify.roles,
                                FirstNamedRoles(verify.claims).AllowedValues)
           first   == CHOOSE k \in missing : \A m \in missing : k <= m
       IN /\ ~verify.decision.allowed
          /\ verify.decision.reason.role = verify.roles[first]
          /\ verify.decision.examined = first

\* two different roles are uncovered; the first of them is cited
C17_Witness ==
    /\ verify.pc = "done"
    /\ NamedRoles(verify.claims) # {}
    /\ FirstNamedRoles(verify.claims).AllowedValues # <<>>
    /\ LET missing == Uncovered(verify.roles,
                                FirstNamedRoles(verify.claims).AllowedValues)
       IN /\ missing = {1, 2}
          /\ verify.roles[1] # verify.roles[2]
    /\ verify.decision.reason.role = verify.roles[1]
    /\ verify.decision.examined = 1

\* C19: with more than one claim named "roles", the first in collection
\* order alone decides: the decision is the one that claim gives, and a
\* denial names that claim, whatever the later ones allow.
C19_FirstRolesClaimDecides ==
    (verify.pc = "done" /\ Cardinality(NamedRoles(verify.claims)) > 1)
    => LET first   == FirstNamedRoles(verify.claims)
           allowed == SetOf(first.AllowedValues)
       IN /\ verify.decision.allowed =
                 (allowed # {} /\ SetOf(verify.roles) \subseteq allowed)
          /\ ~verify.decision.allowed => verify.decision.reason.claim = first

\* the first "roles" claim allows nothing, a later one covers every role
\* of the subject, and the decision is a denial
C19_Witness ==
    /\ verify.pc = "done"
    /\ verify.roles # <<>>
    /\ \E k \in NamedRoles(verify.claims) :
           /\ verify.claims[k] # FirstNamedRoles(verify.claims)
           /\ SetOf(verify.roles) \subseteq SetOf(verify.claims[k].AllowedValues)
    /\ FirstNamedRoles(verify.claims).AllowedValues = <<>>
    /\ ~verify.decision.allowed

\* ------------------------------------------------------------------------
\* Vocabulary of the construction properties
\* ------------------------------------------------------------------------
\* the package variables as the process starts
DefaultPackageVars ==
    [satelliteURL |-> DefaultSatelliteURL, satelliteId |-> DefaultSatelliteId,
     satelliteTokenPath |-> DefaultSatelliteTokenPath,
     satelliteTrustedListPath |-> DefaultSatelliteTrustedListPath,
     updateRateInS |-> DefaultUpdateRateInS]

\* the refresh period of the environment e is unset, unparsable or not
\* positive
NoPeriod(e) == ~Atoi(e.updateRate).ok \/ Atoi(e.updateRate).n <= 0

\* C12: a construction with an empty seed is fatal: the process ends, no
\* repository is returned, no package variable is written and nothing is
\* scheduled; no repository exists, and none answers IsTrusted, with an
\* empty trusted set.
C12_EmptySeedIsFatal ==
    /\ \A k \in 1..Len(built) :
           built[k].env.fingerprints = <<>> =>
               /\ k = Len(built)
               /\ proc = "exited"
               /\ built[k].made.fatal
               /\ built[k].made.repo = NoRepo
               /\ built[k].made.task = NoTask
               /\ packageVars = IF k = 1 THEN DefaultPackageVars
                                ELSE built[k - 1].made.packageVars
               /\ k = 1 => /\ repo = NoRepo
                           /\ task = NoTask
                           /\ refresh = IdleRefresh
                           /\ \A c \in Callers : call[c] = IdleCall
    /\ repo # NoRepo => /\ repo.trustedFingerprints # <<>>
                        /\ built[1].env.fingerprints # <<>>
    /\ \A c \in Callers :
           call[c].pc # "idle" => call[c].icr.trustedFingerprints # <<>>

\* the first construction of the process found no seed
C12_Witness ==
    /\ Len(built) = 1
    /\ built[1].env.fingerprints = <<>>
    /\ proc = "exited"

\* C13: every construction, whatever was constructed before it in the
\* process, gives each setting its environment leaves unset the documented
\* default (base URL, identifier, token path, trusted-list path), and a
\* refresh period that is unset, unparsable or not positive the default 5.
C13_UnsetFallsBackToDefault ==
    \A k \in 1..Len(built) :
        ~built[k].made.fatal =>
            LET e    == built[k].env
                made == built[k].made
            IN /\ e.url = "" => made.repo.satelliteAr.Host = DefaultSatelliteURL
               /\ e.id = "" => made.repo.satelliteAr.Id = DefaultSatelliteId
               /\ e.tokenPath = "" =>
                      made.repo.satelliteAr.TokenPath = DefaultSatelliteTokenPath
               /\ e.trustedListPath = "" =>
                      made.packageVars.satelliteTrustedListPath
                          = DefaultSatelliteTrustedListPath
               /\ NoPeriod(e) => made.task.rate = DefaultUpdateRateInS

\* C14: the requests of the repository built first go to the host, the
\* trusted-list path and the party path fixed at its construction, whatever
\* happened since: refreshes, IsTrusted calls, later constructions.
C14_EndpointFixedAtConstruction ==
    (built # <<>> /\ ~built[1].made.fatal) =>
        LET first == built[1].made
        IN /\ repo.satelliteAr = first.repo.satelliteAr
           /\ task.receiver.satelliteAr = first.repo.satelliteAr
           /\ \A k \in 1..Len(refresh.requests) :
                  refresh.requests[k].url =
                      first.repo.satelliteAr.Host
                          \o first.packageVars.satelliteTrustedListPath
           /\ \A c \in Callers : \A k \in 1..Len(call[c].requests) :
                  call[c].requests[k].url =
                      first.repo.satelliteAr.Host \o satellitePartyPath
                          \o call[c].clientId

\* ------------------------------------------------------------------------
\* Vocabulary of the fetch properties
\* ------------------------------------------------------------------------
\* a fetch that met the exchange w asked for its token once; on a token
\* error it returned that error, handed no request to the HTTP client and
\* did not call the parsing capability; each request it handed over
\* carries the token of w
TokenFirst(w, httpErr, tokenCalls, requests, parseCalls) ==
    /\ tokenCalls = 1
    /\ w.token.httpErr # NoError =>
           /\ httpErr = w.token.httpErr
           /\ requests = <<>>
           /\ parseCalls = 0
    /\ \A k \in 1..Len(requests) :
           /\ w.token.httpErr = NoError
           /\ requests[k].method = "GET"
           /\ requests[k].authorization = "Bearer " \o w.token.accessToken

\* the exchange w got a token and a request, and then the transport
\* failed, no response came, the status was not 200 or the body did not
\* decode
ResponseUnusable(host, path, id, w) ==
    /\ w.token.httpErr = NoError
    /\ ~NewRequestFails(host, path, id)
    /\ (w.do # "resp" \/ w.statusCode # StatusOK \/ w.body # "json")

\* an unusable response gives a non-zero error with status Bad Gateway and
\* no call of the parsing capability; the capability is called only after
\* a 200 whose body decoded
BadGatewayBeforeParsing(host, path, id, w, httpErr, parseCalls) ==
    /\ ResponseUnusable(host, path, id, w) =>
           /\ httpErr # NoError
           /\ httpErr.Status = StatusBadGateway
           /\ parseCalls = 0
    /\ parseCalls > 0 =>
           /\ w.do = "resp"
           /\ w.statusCode = StatusOK
           /\ w.body = "json"

\* C15: in getTrustedList and in getTrustedParty the token is acquired
\* before anything else: a token error is returned unchanged with no
\* request issued and no parsing capability called, and every GET issued
\* carries the bearer token acquired in that call.
C15_TokenBeforeRequest ==
    /\ refresh.pc # "idle" =>
           TokenFirst(refresh.world, refresh.httpErr, refresh.tokenCalls,
                      refresh.requests, refresh.parseCalls)
    /\ \A c \in Callers :
           call[c].lookups > 0 =>
               TokenFirst(call[c].world, call[c].httpErr, call[c].tokenCalls,
                          call[c].requests, call[c].parseCalls)

\* a refresh was refused its token while a party lookup sent its request
\* under the other token
C15_Witness ==
    /\ refresh.pc # "idle"
    /\ refresh.world.token.httpErr = TokenError
    /\ refresh.httpErr = TokenError
    /\ \E c \in Callers :
           /\ call[c].lookups > 0
           /\ Len(call[c].requests) = 1
           /\ call[c].requests[1].authorization = "Bearer another token"

\* C16: in both fetches a transport failure or missing response, a status
\* other than 200 and a body that does not decode each give a non-zero
\* HttpError with status Bad Gateway without the parsing capability being
\* called; it is called only after a 200 with a body that decoded.
C16_BadGatewayWithoutParsing ==
    /\ refresh.pc # "idle" =>
           BadGatewayBeforeParsing(refresh.icr.satelliteAr.Host,
                                   satelliteTrustedListPath, "", refresh.world,
                                   refresh.httpErr, refresh.parseCalls)
    /\ \A c \in Callers :
           call[c].lookups > 0 =>
               BadGatewayBeforeParsing(call[c].icr.satelliteAr.Host,
                                       satellitePartyPath, call[c].clientId,
                                       call[c].world, call[c].httpErr,
                                       call[c].parseCalls)

\* a refresh got a body that does not decode while a party lookup got no
\* response
C16_Witness ==
    /\ refresh.pc # "idle"
    /\ ResponseUnusable(refresh.icr.satelliteAr.Host, satelliteTrustedListPath, "",
                        refresh.world)
    /\ refresh.world.body = "garbage"
    /\ refresh.httpErr.Status = StatusBadGateway
    /\ \E c \in Callers :
           /\ call[c].lookups > 0
           /\ ResponseUnusable(call[c].icr.satelliteAr.Host, satellitePartyPath,
                               call[c].clientId, call[c].world)
           /\ call[c].world.do = "nil"
           /\ call[c].httpErr.Status = StatusBadGateway

\* ------------------------------------------------------------------------
\* Vocabulary of the repetition property
\* ------------------------------------------------------------------------
\* the call k was the call that returned last, asked again: the same trusted
\* set and endpoint, the same arguments, the same remote answers
AskedAgain(k) ==
    /\ k.pc = "done"
    /\ lastCall.pc = "done"
    /\ k.icr = lastCall.icr
    /\ k.caCertificate = lastCall.caCertificate
    /\ k.clientCertificate = lastCall.clientCertificate
    /\ k.clientId = lastCall.clientId
    /\ k.world = lastCall.world

\* C18: a step of IsTrusted changes neither the repository (its trusted
\* set, its endpoint) nor what was scheduled nor a package variable; and a
\* call repeated on the same set with the same remote answers gives the
\* result it gave before.
C18_IsTrustedReadOnlyAndRepeatable ==
    /\ [](\A c \in Callers :
              AskedAgain(call[c]) =>
                  /\ call[c].isTrusted = lastCall.isTrusted
                  /\ call[c].panicked = lastCall.panicked
                  /\ call[c].lookups = lastCall.lookups)
    /\ [][call' # call =>
              /\ repo' = repo
              /\ task' = task
              /\ packageVars' = packageVars]_vars

\* a call confirmed by the party lookup was asked again and confirmed again
C18_Witness ==
    \E c \in Callers :
        /\ AskedAgain(call[c])
        /\ call[c].lookups > 0
        /\ call[c].isTrusted
        /\ repo.trustedFingerprints = call[c].icr.trustedFingerprints

====
